---- MODULE Spec2Model ----
(***************************************************************************)
(* Jacobian-coordinate group arithmetic of a short Weierstrass curve       *)
(* (lib/crypto/src/curve/sw/projective.rs), instantiated on toy curves     *)
(* y^2 = x^3 + a*x + b over small odd prime fields F_p.                    *)
(*                                                                         *)
(* The field type, the affine point type and batch_inversion live outside  *)
(* projective.rs; they are modelled from their stated contract.            *)
(***************************************************************************)
EXTENDS Integers, Sequences, FiniteSets, TLC

VARIABLES
    cv,     \* the curve configuration P
    self,   \* the point an operation is called on (mutated in place)
    other,  \* a second projective operand
    third,  \* a third projective operand
    aff,    \* the affine operand of the last mixed operation
    v,      \* the sequence or raw coordinates handed to the last call
    op,     \* the last operation applied
    pre,    \* self as it was before the last operation
    out     \* the value the last call returned

vars == <<cv, self, other, third, aff, v, op, pre, out>>

----------------------------------------------------------------------------
(* Bounds                                                                  *)

\* How many curve configurations of CurveList are explored.
NumCurves == 3

\* Longest slice handed to normalize_batch.
MaxBatch == 2

\* Longest sequence handed to sum.
MaxSum == 3

(* The SWCurveConfig instances P.  p: the base-field prime, a and b: the   *)
(* curve coefficients, r: the order of the prime-order subgroup, deg: what *)
(* P::BaseField::extension_degree() answers (it selects how doubling       *)
(* computes D when a = 0; the coordinates stay elements of F_p).           *)
CurveList ==
    << [p |-> 5, a |-> 0, b |-> 1, r |-> 3, deg |-> 1],
       [p |-> 5, a |-> 3, b |-> 0, r |-> 5, deg |-> 1],
       [p |-> 5, a |-> 0, b |-> 1, r |-> 3, deg |-> 3],
       [p |-> 7, a |-> 1, b |-> 3, r |-> 3, deg |-> 1],
       [p |-> 7, a |-> 0, b |-> 1, r |-> 3, deg |-> 1],
       [p |-> 11, a |-> 0, b |-> 1, r |-> 3, deg |-> 1] >>

Curves == { CurveList[i] : i \in 1..NumCurves }

----------------------------------------------------------------------------
(* Base field F_p: the operations projective.rs uses                       *)

Fp == 0..(cv.p - 1)

ZERO == 0

ONE == 1

add(x, y) == (x + y) % cv.p

sub(x, y) == (x - y + cv.p) % cv.p

mul(x, y) == (x * y) % cv.p

fneg(x) == (cv.p - x) % cv.p

square(x) == (x * x) % cv.p

double(x) == (x + x) % cv.p

\* sum_of_products(&[a1, a2], &[b1, b2]) = a1*b1 + a2*b2
sum_of_products(a1, a2, b1, b2) == (a1 * b1 + a2 * b2) % cv.p

\* Multiplicative inverse of a nonzero element.
inverse(x) == CHOOSE y \in Fp : (x * y) % cv.p = 1

\* P::mul_by_a
mul_by_a(x) == (cv.a * x) % cv.p

----------------------------------------------------------------------------
(* batch_inversion(&mut z_s): every nonzero entry is replaced by its       *)
(* inverse using one shared inversion; zero entries are skipped and left   *)
(* as they are.                                                            *)

\* prod[i]: the running product of the nonzero entries among s[1..i].
RECURSIVE RunningProduct(_, _)
RunningProduct(s, i) ==
    IF i = 0 THEN ONE
    ELSE IF s[i] = ZERO THEN RunningProduct(s, i - 1)
    ELSE mul(RunningProduct(s, i - 1), s[i])

\* The backward pass: tmp holds the inverse of the running product up to i.
RECURSIVE Unroll(_, _, _)
Unroll(s, i, tmp) ==
    IF i = 0 THEN s
    ELSE IF s[i] = ZERO THEN Unroll(s, i - 1, tmp)
    ELSE Unroll([s EXCEPT ![i] = mul(tmp, RunningProduct(s, i - 1))],
                i - 1, mul(tmp, s[i]))

batch_inversion(s) ==
    LET n == Len(s)
        total == RunningProduct(s, n)
    IN  Unroll(s, n, inverse(total))

----------------------------------------------------------------------------
(* Affine<P>                                                               *)

\* Affine::identity(): the point at infinity, coordinates held at zero.
AffineIdentity == [infinity |-> TRUE, x |-> ZERO, y |-> ZERO]

\* Affine::new_unchecked(x, y)
AffineNewUnchecked(x, y) == [infinity |-> FALSE, x |-> x, y |-> y]

\* Affine::neg
AffineNeg(A) == [A EXCEPT !.y = fneg(A.y)]

\* Affine::is_on_curve: the point at infinity counts as on the curve.
is_on_curve(A) ==
    \/ A.infinity
    \/ square(A.y) = add(add(mul(square(A.x), A.x), mul(cv.a, A.x)), cv.b)

\* Every affine value, on the curve or not.
AffineAll ==
    {AffineIdentity} \cup { AffineNewUnchecked(x, y) : x \in Fp, y \in Fp }

\* The affine points of the curve, the point at infinity included.
AffinePoints == { A \in AffineAll : is_on_curve(A) }

----------------------------------------------------------------------------
(* Projective<P>: a record [x, y, z] of base-field elements                *)

\* Projective::new_unchecked: the three coordinates, stored as given.
new_unchecked(x, y, z) == [x |-> x, y |-> y, z |-> z]

\* zero with x held at ZERO.
zero_XZero == new_unchecked(ZERO, ONE, ZERO)

\* Zero::zero and AdditiveGroup::ZERO
zero == new_unchecked(ONE, ONE, ZERO)

\* Zero::is_zero
is_zero(g) == g.z = ZERO

\* Affine::xy: None for the point at infinity, else Some((x, y)).
xy(A) == IF A.infinity THEN <<>> ELSE <<A.x, A.y>>

\* From<Affine<P>> for Projective<P>
from_affine(A) ==
    IF xy(A) = <<>> THEN zero
    ELSE new_unchecked(xy(A)[1], xy(A)[2], ONE)

\* From<Projective<P>> for Affine<P> (into_affine): (x/z^2, y/z^3), or the
\* point at infinity when z = 0.
into_affine(g) ==
    IF is_zero(g) THEN AffineIdentity
    ELSE LET zinv == inverse(g.z)
             zinv2 == square(zinv)
         IN  AffineNewUnchecked(mul(g.x, zinv2), mul(g.y, mul(zinv2, zinv)))

\* eq comparing the x coordinates only.
eq_OnlyX(g, h) ==
    IF is_zero(g) THEN is_zero(h)
    ELSE IF is_zero(h) THEN FALSE
    ELSE LET z1z1 == square(g.z)
             z2z2 == square(h.z)
         IN  mul(g.x, z2z2) = mul(h.x, z1z1)

\* PartialEq::eq
eq(g, h) ==
    IF is_zero(g) THEN is_zero(h)
    ELSE IF is_zero(h) THEN FALSE
    ELSE LET z1z1 == square(g.z)
             z2z2 == square(h.z)
         IN  IF mul(g.x, z2z2) = mul(h.x, z1z1)
             THEN mul(g.y, mul(z2z2, h.z)) = mul(h.y, mul(z1z1, g.z))
             ELSE FALSE

\* Hash::hash: the value handed to the hasher.
hash(g) == into_affine(g)

\* Neg::neg
neg(g) == [g EXCEPT !.y = fneg(g.y)]

\* D of the a = 0 doubling: 4*X1*B when the extension degree is 1 or 2,
\* 2*((X1+B)^2-A-C) otherwise.
DoubleD(deg, x1, a, b, c) ==
    IF deg \in {1, 2}
    THEN double(double(mul(x1, b)))
    ELSE double(sub(sub(square(add(x1, b)), a), c))

\* DoubleA0 with E = 2*A instead of 3*A.
DoubleA0_ETwoA(deg, g) ==
    LET a == square(g.x)
        b == square(g.y)
        c == square(b)
        d == DoubleD(deg, g.x, a, b, c)
        e == double(a)
        z3 == double(mul(g.z, g.y))
        x3 == sub(square(e), double(d))
        y3 == sub(mul(sub(d, x3), e), double(double(double(c))))
    IN  new_unchecked(x3, y3, z3)

\* double_in_place, the branch P::COEFF_A == 0 (dbl-2009-l)
DoubleA0(deg, g) ==
    LET a == square(g.x)
        b == square(g.y)
        c == square(b)
        d == DoubleD(deg, g.x, a, b, c)
        e == add(a, double(a))
        z3 == double(mul(g.z, g.y))
        x3 == sub(square(e), double(d))
        y3 == sub(mul(sub(d, x3), e), double(double(double(c))))
    IN  new_unchecked(x3, y3, z3)

\* DoubleGeneral with M = 3*XX+a*ZZ (ZZ not squared).
DoubleGeneral_ZZNotSquared(g) ==
    LET xx == square(g.x)
        yy == square(g.y)
        yyyy == square(yy)
        zz == square(g.z)
        s == double(sub(sub(square(add(g.x, yy)), xx), yyyy))
        m == add(add(double(xx), xx), mul_by_a(zz))
        x3 == sub(square(m), double(s))
        z3 == double(mul(g.z, g.y))
        y3 == sub(mul(sub(s, x3), m), double(double(double(yyyy))))
    IN  new_unchecked(x3, y3, z3)

\* double_in_place, the branch P::COEFF_A != 0 (dbl-2007-bl)
DoubleGeneral(g) ==
    LET xx == square(g.x)
        yy == square(g.y)
        yyyy == square(yy)
        zz == square(g.z)
        s == double(sub(sub(square(add(g.x, yy)), xx), yyyy))
        m == add(add(double(xx), xx), mul_by_a(square(zz)))
        x3 == sub(square(m), double(s))
        z3 == double(mul(g.z, g.y))
        y3 == sub(mul(sub(s, x3), m), double(double(double(yyyy))))
    IN  new_unchecked(x3, y3, z3)

\* double_in_place with the extension degree made explicit.
DoubleWith(deg, g) ==
    IF is_zero(g) THEN g
    ELSE IF cv.a = ZERO THEN DoubleA0(deg, g)
    ELSE DoubleGeneral(g)

\* AdditiveGroup::double_in_place
double_in_place(g) == DoubleWith(cv.deg, g)

\* add_assign (mixed) with r = S2-Y1, the doubling left out.
add_assign_affine_RNotDoubled(g, A) ==
    IF xy(A) = <<>> THEN g
    ELSE LET other_x == xy(A)[1]
             other_y == xy(A)[2]
         IN
         IF is_zero(g) THEN new_unchecked(other_x, other_y, ONE)
         ELSE LET z1z1 == square(g.z)
                  u2 == mul(other_x, z1z1)
                  s2 == mul(mul(g.z, other_y), z1z1)
              IN
              IF g.x = u2
              THEN IF g.y = s2 THEN double_in_place(g) ELSE zero
              ELSE LET h == sub(u2, g.x)
                       hh == square(h)
                       i == double(double(hh))
                       j == mul(fneg(h), i)
                       r == sub(s2, g.y)
                       v0 == mul(g.x, i)
                       x3 == sub(add(square(r), j), double(v0))
                       v1 == sub(v0, x3)
                       y3 == sum_of_products(r, double(g.y), v1, j)
                       z3 == double(mul(g.z, h))
                   IN  new_unchecked(x3, y3, z3)

\* add_assign (mixed) without the branch for self.is_zero().
add_assign_affine_NoSelfZeroCheck(g, A) ==
    IF xy(A) = <<>> THEN g
    ELSE LET other_x == xy(A)[1]
             other_y == xy(A)[2]
         IN
         LET z1z1 == square(g.z)
                  u2 == mul(other_x, z1z1)
                  s2 == mul(mul(g.z, other_y), z1z1)
              IN
              IF g.x = u2
              THEN IF g.y = s2 THEN double_in_place(g) ELSE zero
              ELSE LET h == sub(u2, g.x)
                       hh == square(h)
                       i == double(double(hh))
                       j == mul(fneg(h), i)
                       r == double(sub(s2, g.y))
                       v0 == mul(g.x, i)
                       x3 == sub(add(square(r), j), double(v0))
                       v1 == sub(v0, x3)
                       y3 == sum_of_products(r, double(g.y), v1, j)
                       z3 == double(mul(g.z, h))
                   IN  new_unchecked(x3, y3, z3)

\* AddAssign<T: Borrow<Affine<P>>>::add_assign (madd-2007-bl)
add_assign_affine(g, A) ==
    IF xy(A) = <<>> THEN g
    ELSE LET other_x == xy(A)[1]
             other_y == xy(A)[2]
         IN
         IF is_zero(g) THEN new_unchecked(other_x, other_y, ONE)
         ELSE LET z1z1 == square(g.z)
                  u2 == mul(other_x, z1z1)
                  s2 == mul(mul(g.z, other_y), z1z1)
              IN
              IF g.x = u2
              THEN IF g.y = s2 THEN double_in_place(g) ELSE zero
              ELSE LET h == sub(u2, g.x)
                       hh == square(h)
                       i == double(double(hh))
                       j == mul(fneg(h), i)
                       r == double(sub(s2, g.y))
                       v0 == mul(g.x, i)
                       x3 == sub(add(square(r), j), double(v0))
                       v1 == sub(v0, x3)
                       y3 == sum_of_products(r, double(g.y), v1, j)
                       z3 == double(mul(g.z, h))
                   IN  new_unchecked(x3, y3, z3)

\* add_assign with Z3 = 2*Z1*H, the mixed-addition Z3 (Z2 left out).
add_assign_DropZ2(g, q) ==
    IF is_zero(g) THEN q
    ELSE IF is_zero(q) THEN g
    ELSE LET z1z1 == square(g.z)
             z2z2 == square(q.z)
             u1 == mul(g.x, z2z2)
             u2 == mul(q.x, z1z1)
             s1 == mul(mul(g.y, q.z), z2z2)
             s2 == mul(mul(q.y, g.z), z1z1)
         IN
         IF u1 = u2
         THEN IF s1 = s2 THEN double_in_place(g) ELSE zero
         ELSE LET h == sub(u2, u1)
                  i == square(double(h))
                  j == mul(fneg(h), i)
                  r == double(sub(s2, s1))
                  v0 == mul(u1, i)
                  x3 == sub(add(square(r), j), double(v0))
                  v1 == sub(v0, x3)
                  y3 == sum_of_products(r, double(s1), v1, j)
                  z3 == double(mul(g.z, h))
              IN  new_unchecked(x3, y3, z3)

\* add_assign without the early return for other.is_zero().
add_assign_NoRhsZeroCheck(g, q) ==
    IF is_zero(g) THEN q
    ELSE LET z1z1 == square(g.z)
             z2z2 == square(q.z)
             u1 == mul(g.x, z2z2)
             u2 == mul(q.x, z1z1)
             s1 == mul(mul(g.y, q.z), z2z2)
             s2 == mul(mul(q.y, g.z), z1z1)
         IN
         IF u1 = u2
         THEN IF s1 = s2 THEN double_in_place(g) ELSE zero
         ELSE LET h == sub(u2, u1)
                  i == square(double(h))
                  j == mul(fneg(h), i)
                  r == double(sub(s2, s1))
                  v0 == mul(u1, i)
                  x3 == sub(add(square(r), j), double(v0))
                  v1 == sub(v0, x3)
                  y3 == sum_of_products(r, double(s1), v1, j)
                  z3 == mul(double(mul(g.z, q.z)), h)
              IN  new_unchecked(x3, y3, z3)

\* AddAssign<&Self>::add_assign (add-2007-bl)
add_assign(g, q) ==
    IF is_zero(g) THEN q
    ELSE IF is_zero(q) THEN g
    ELSE LET z1z1 == square(g.z)
             z2z2 == square(q.z)
             u1 == mul(g.x, z2z2)
             u2 == mul(q.x, z1z1)
             s1 == mul(mul(g.y, q.z), z2z2)
             s2 == mul(mul(q.y, g.z), z1z1)
         IN
         IF u1 = u2
         THEN IF s1 = s2 THEN double_in_place(g) ELSE zero
         ELSE LET h == sub(u2, u1)
                  i == square(double(h))
                  j == mul(fneg(h), i)
                  r == double(sub(s2, s1))
                  v0 == mul(u1, i)
                  x3 == sub(add(square(r), j), double(v0))
                  v1 == sub(v0, x3)
                  y3 == sum_of_products(r, double(s1), v1, j)
                  z3 == mul(double(mul(g.z, q.z)), h)
              IN  new_unchecked(x3, y3, z3)

\* sub_assign adding the operand itself, the negation left out.
sub_assign_NoNeg(g, q) == add_assign(g, q)

\* SubAssign<&Self>::sub_assign
sub_assign(g, q) == add_assign(g, neg(q))

\* SubAssign<T: Borrow<Affine<P>>>::sub_assign
sub_assign_affine(g, A) == add_assign_affine(g, AffineNeg(A))

\* Sum::sum: the fold of mixed additions from zero.
RECURSIVE SumFrom(_, _, _)
SumFrom(acc, s, i) ==
    IF i > Len(s) THEN acc ELSE SumFrom(add_assign_affine(acc, s[i]), s, i + 1)

sum(s) == SumFrom(zero, s, 1)

\* normalize_batch with y = g.y * z2, the last factor z left out.
normalize_batch_YTimesZ2(s) ==
    LET z_s == batch_inversion([i \in 1..Len(s) |-> s[i].z])
    IN  [i \in 1..Len(s) |->
            IF is_zero(s[i]) THEN AffineIdentity
            ELSE LET z2 == square(z_s[i])
                 IN  AffineNewUnchecked(mul(s[i].x, z2), mul(s[i].y, z2))]

\* CurveGroup::normalize_batch
normalize_batch(s) ==
    LET z_s == batch_inversion([i \in 1..Len(s) |-> s[i].z])
    IN  [i \in 1..Len(s) |->
            IF is_zero(s[i]) THEN AffineIdentity
            ELSE LET z2 == square(z_s[i])
                 IN  AffineNewUnchecked(mul(s[i].x, z2),
                                        mul(mul(s[i].y, z2), z_s[i]))]

\* SWCurveConfig::mul_affine by the subgroup order r (double-and-add over
\* the bits of r, most significant first), as is_in_prime_order_subgroup
\* uses it.
RECURSIVE MulAffine(_, _)
MulAffine(A, k) ==
    IF k = 0 THEN zero
    ELSE LET res == double_in_place(MulAffine(A, k \div 2))
         IN  IF k % 2 = 1 THEN add_assign_affine(res, A) ELSE res

\* Affine::is_in_prime_order_subgroup
is_in_prime_order_subgroup(A) == is_zero(MulAffine(A, cv.r))

\* new without the subgroup assertion.
new_NoSubgroupCheck(x, y, z) ==
    LET p == into_affine(new_unchecked(x, y, z))
    IN  IF ~is_on_curve(p) THEN [panic |-> TRUE, value |-> zero]
        ELSE [panic |-> FALSE, value |-> from_affine(p)]

\* Projective::new: the assertions halt the call; otherwise p.into().
new(x, y, z) ==
    LET p == into_affine(new_unchecked(x, y, z))
    IN  IF ~is_on_curve(p) THEN [panic |-> TRUE, value |-> zero]
        ELSE IF ~is_in_prime_order_subgroup(p)
             THEN [panic |-> TRUE, value |-> zero]
        ELSE [panic |-> FALSE, value |-> from_affine(p)]

----------------------------------------------------------------------------
(* Input domains                                                           *)

\* Every coordinate triple.
Triples == { new_unchecked(x, y, z) : x \in Fp, y \in Fp, z \in Fp }

\* The Jacobian curve equation Y^2 = X^3 + a*X*Z^4 + b*Z^6.
OnCurveJacobian(g) ==
    LET zz == square(g.z)
        z4 == square(zz)
        z6 == mul(z4, zz)
    IN  square(g.y) =
            add(add(mul(square(g.x), g.x), mul(mul(cv.a, g.x), z4)),
                mul(cv.b, z6))

\* Every Jacobian representative of a point of the curve: for z # 0 the
\* triples (k^2*x, k^3*y, k) of the affine points, for z = 0 the triples
\* (t^2, t^3, 0), zero among them.
Reps == { g \in Triples : OnCurveJacobian(g) }

\* The lifts of the affine points of the curve.
Lifts == { from_affine(A) : A \in AffinePoints }

\* Sequences over S of length at most n.
SeqsUpTo(S, n) == UNION { [1..k -> S] : k \in 0..n }

----------------------------------------------------------------------------
(* The group machine: in-place operations on self                          *)

Idle ==
    /\ third = zero
    /\ aff = AffineIdentity
    /\ v = <<>>
    /\ op = "init"
    /\ pre = zero
    /\ out = FALSE

\* From identity() and the lifts of affine points.
Init ==
    /\ cv \in Curves
    /\ self \in Lifts
    /\ other \in Lifts
    /\ Idle

\* From any representatives of points of the curve.
InitRep ==
    /\ cv \in Curves
    /\ self \in Reps
    /\ other \in Reps
    /\ Idle

Double ==
    /\ self' = double_in_place(self)
    /\ pre' = self
    /\ op' = "double"
    /\ UNCHANGED <<cv, other, third, aff, v, out>>

Negate ==
    /\ self' = neg(self)
    /\ pre' = self
    /\ op' = "neg"
    /\ UNCHANGED <<cv, other, third, aff, v, out>>

AddAssign ==
    /\ self' = add_assign(self, other)
    /\ pre' = self
    /\ op' = "add"
    /\ UNCHANGED <<cv, other, third, aff, v, out>>

SubAssign ==
    /\ self' = sub_assign(self, other)
    /\ pre' = self
    /\ op' = "sub"
    /\ UNCHANGED <<cv, other, third, aff, v, out>>

AddAssignAffine ==
    \E A \in AffinePoints :
        /\ self' = add_assign_affine(self, A)
        /\ aff' = A
        /\ pre' = self
        /\ op' = "add_affine"
        /\ UNCHANGED <<cv, other, third, v, out>>

SubAssignAffine ==
    \E A \in AffinePoints :
        /\ self' = sub_assign_affine(self, A)
        /\ aff' = A
        /\ pre' = self
        /\ op' = "sub_affine"
        /\ UNCHANGED <<cv, other, third, v, out>>

\* Projective is Copy: the current point becomes the second operand.
Copy ==
    /\ other' = self
    /\ pre' = self
    /\ op' = "copy"
    /\ UNCHANGED <<cv, self, third, aff, v, out>>

Next ==
    \/ Double
    \/ Negate
    \/ AddAssign
    \/ SubAssign
    \/ AddAssignAffine
    \/ SubAssignAffine
    \/ Copy

Spec == Init /\ [][Next]_vars

\* One operation applied to operands drawn from all representatives.
NextRep ==
    \/ op = "init" /\ Double
    \/ op = "init" /\ Negate
    \/ op = "init" /\ AddAssign
    \/ op = "init" /\ SubAssign
    \/ op = "init" /\ AddAssignAffine
    \/ op = "init" /\ SubAssignAffine
    \/ op = "init" /\ Copy

SpecRep == InitRep /\ [][NextRep]_vars

----------------------------------------------------------------------------
(* Sums of three points and of sequences: by-value Add and Sum             *)

\* Three representatives, or a sequence of affine points of the curve.
InitAssoc ==
    /\ cv \in Curves
    /\ \/ /\ self \in Reps
          /\ other \in Reps
          /\ third \in Reps
          /\ v = <<>>
       \/ /\ self = zero
          /\ other = zero
          /\ third = zero
          /\ v \in SeqsUpTo(AffinePoints, MaxSum)
    /\ aff = AffineIdentity
    /\ op = "init"
    /\ pre = zero
    /\ out = FALSE

\* Add<&Self>::add in both orders and both bracketings.
AddThree ==
    /\ op = "init"
    /\ out' = [pq |-> add_assign(self, other),
               qp |-> add_assign(other, self),
               left |-> add_assign(add_assign(self, other), third),
               right |-> add_assign(self, add_assign(other, third))]
    /\ op' = "add_three"
    /\ UNCHANGED <<cv, self, other, third, aff, v, pre>>

\* Sum::sum over the sequence v.
Sum ==
    /\ op = "init"
    /\ out' = sum(v)
    /\ op' = "sum"
    /\ UNCHANGED <<cv, self, other, third, aff, v, pre>>

NextAssoc ==
    \/ AddThree
    \/ Sum

SpecAssoc == InitAssoc /\ [][NextAssoc]_vars

----------------------------------------------------------------------------
(* Construction, equality and hashing on arbitrary coordinate triples      *)

InitRaw ==
    /\ cv \in Curves
    /\ self \in Triples
    /\ other \in Triples
    /\ Idle

\* self == other
Eq ==
    /\ op = "init"
    /\ out' = eq(self, other)
    /\ op' = "eq"
    /\ UNCHANGED <<cv, self, other, third, aff, v, pre>>

\* What hashing self and hashing other feed to the hasher.
Hash ==
    /\ op = "init"
    /\ out' = [h1 |-> hash(self), h2 |-> hash(other)]
    /\ op' = "hash"
    /\ UNCHANGED <<cv, self, other, third, aff, v, pre>>

\* Projective::new on the coordinates of self.
New ==
    /\ op = "init"
    /\ v' = <<self.x, self.y, self.z>>
    /\ out' = new(self.x, self.y, self.z)
    /\ op' = "new"
    /\ UNCHANGED <<cv, self, other, third, aff, pre>>

\* Projective::new_unchecked on the coordinates of self.
NewUnchecked ==
    /\ op = "init"
    /\ v' = <<self.x, self.y, self.z>>
    /\ out' = new_unchecked(self.x, self.y, self.z)
    /\ op' = "new_unchecked"
    /\ UNCHANGED <<cv, self, other, third, aff, pre>>

NextRaw ==
    \/ Eq
    \/ Hash
    \/ New
    \/ NewUnchecked

SpecRaw == InitRaw /\ [][NextRaw]_vars

----------------------------------------------------------------------------
(* Batch normalisation of a slice of projective points                     *)

InitBatch ==
    /\ cv \in Curves
    /\ self = zero
    /\ other = zero
    /\ third = zero
    /\ aff = AffineIdentity
    /\ v \in SeqsUpTo(Reps, MaxBatch)
    /\ op = "init"
    /\ pre = zero
    /\ out = FALSE

\* CurveGroup::normalize_batch(&v)
NormalizeBatch ==
    /\ op = "init"
    /\ out' = normalize_batch(v)
    /\ op' = "normalize_batch"
    /\ UNCHANGED <<cv, self, other, third, aff, v, pre>>

NextBatch == NormalizeBatch

SpecBatch == InitBatch /\ [][NextBatch]_vars

----------------------------------------------------------------------------
(* The reference group law on affine points (chord and tangent), against   *)
(* which the Jacobian formulae are checked                                 *)

\* The third point of the line of slope lambda through A (and B).
RefThird(A, B, lambda) ==
    LET x3 == sub(sub(square(lambda), A.x), B.x)
        y3 == sub(mul(lambda, sub(A.x, x3)), A.y)
    IN  AffineNewUnchecked(x3, y3)

RefAdd(A, B) ==
    IF A.infinity THEN B
    ELSE IF B.infinity THEN A
    ELSE IF A.x = B.x
         THEN IF A.y = B.y /\ A.y # ZERO
              THEN RefThird(A, B,
                       mul(add(mul(3 % cv.p, square(A.x)), cv.a),
                           inverse(double(A.y))))
              ELSE AffineIdentity
    ELSE RefThird(A, B, mul(sub(B.y, A.y), inverse(sub(B.x, A.x))))

RECURSIVE RefMul(_, _)
RefMul(k, A) == IF k = 0 THEN AffineIdentity ELSE RefAdd(RefMul(k - 1, A), A)

----------------------------------------------------------------------------
(* C1: general addition implements the group law.  After self += &other on *)
(* any representatives of points A and B of the curve, self equals (as     *)
(* projective points) the lift of the chord-and-tangent sum A + B, and     *)
(* self.z = 0 exactly when A + B is the point at infinity.                 *)
C1_AddIsGroupLaw ==
    op = "add" =>
        LET C == RefAdd(into_affine(pre), into_affine(other))
        IN  /\ eq(self, from_affine(C))
            /\ (self.z = ZERO) <=> C.infinity

\* The generic case on representatives with z other than 0 and 1.
C1_Witness ==
    /\ op = "add"
    /\ pre.z \notin {ZERO, ONE}
    /\ other.z \notin {ZERO, ONE}
    /\ into_affine(pre).x # into_affine(other).x
    /\ self.z # ZERO

\* The equal case (doubling through addition) on distinct representatives.
C1_WitnessEqual ==
    /\ op = "add"
    /\ pre # other
    /\ ~is_zero(pre)
    /\ eq(pre, other)
    /\ self.z # ZERO

(* C2: double_in_place computes 2P in both curve branches, leaves the      *)
(* identity unchanged, sends a point with y = 0 to z = 0, and for a = 0    *)
(* yields the same coordinates whichever way D is computed.                *)
C2_DoubleIsTangentLaw ==
    op = "double" =>
        LET A == into_affine(pre)
        IN  /\ eq(self, from_affine(RefAdd(A, A)))
            /\ is_zero(pre) => self = pre
            /\ (~is_zero(pre) /\ pre.y = ZERO) => self.z = ZERO
            /\ cv.a = ZERO =>
                   /\ self = DoubleWith(1, pre)
                   /\ self = DoubleWith(3, pre)

\* A doubling in the a # 0 branch on a representative with z other than 1.
C2_Witness ==
    /\ op = "double"
    /\ cv.a # ZERO
    /\ pre.z \notin {ZERO, ONE}
    /\ self.z # ZERO

\* A doubling in the a = 0 branch with D computed the long way.
C2_WitnessA0 ==
    /\ op = "double"
    /\ cv.a = ZERO
    /\ cv.deg = 3
    /\ pre.z \notin {ZERO, ONE}
    /\ self.z # ZERO

\* Doubling a point of order two.
C2_WitnessOrderTwo ==
    /\ op = "double"
    /\ ~is_zero(pre)
    /\ pre.y = ZERO
    /\ self.z = ZERO

(* C3: addition is commutative and associative up to projective equality, *)
(* on any representatives, and Sum over a sequence of affine points gives  *)
(* equal results for every permutation of the sequence.                    *)
C3_AddCommAssoc ==
    /\ op = "add_three" =>
           /\ eq(out.pq, out.qp)
           /\ eq(out.left, out.right)
    /\ op = "sum" =>
           \A f \in Permutations(1..Len(v)) :
               eq(out, sum([i \in 1..Len(v) |-> v[f[i]]]))

\* Three pairwise different finite points on representatives with z other
\* than 1, whose sum is finite.
C3_Witness ==
    /\ op = "add_three"
    /\ self.z \notin {ZERO, ONE}
    /\ other.z \notin {ZERO, ONE}
    /\ third.z \notin {ZERO, ONE}
    /\ ~eq(self, other)
    /\ ~eq(other, third)
    /\ ~eq(self, third)
    /\ ~is_zero(out.pq)
    /\ ~is_zero(out.left)
    /\ out.left # out.right

\* A sum of three different finite affine points.
C3_WitnessSum ==
    /\ op = "sum"
    /\ Len(v) = 3
    /\ \A i \in 1..3 : ~v[i].infinity
    /\ v[1] # v[2] /\ v[2] # v[3] /\ v[1] # v[3]
    /\ ~is_zero(out)

(* C4: identity and inverse laws under projective equality: P + 0 == P,   *)
(* 0 + P == P, P + (-P) == 0, P - P == 0 for a projective and for an       *)
(* affine right operand (subtraction adds the negation), -0 == 0 and       *)
(* double(0) == 0.                                                         *)
C4_IdentityInverseLaws ==
    /\ (op = "add" /\ is_zero(other)) => eq(self, pre)
    /\ (op = "add" /\ is_zero(pre)) => eq(self, other)
    /\ (op = "add" /\ eq(other, neg(pre))) => eq(self, zero)
    /\ op = "sub" => self = add_assign(pre, neg(other))
    /\ (op = "sub" /\ eq(other, pre)) => eq(self, zero)
    /\ op = "sub_affine" => self = add_assign_affine(pre, AffineNeg(aff))
    /\ (op = "sub_affine" /\ eq(pre, from_affine(aff))) => eq(self, zero)
    /\ (op = "neg" /\ is_zero(pre)) => eq(self, zero)
    /\ (op = "double" /\ is_zero(pre)) => eq(self, zero)

\* P - P on two different representatives of a finite point P with y # 0.
C4_Witness ==
    /\ op = "sub"
    /\ ~is_zero(pre)
    /\ pre.y # ZERO
    /\ other # pre
    /\ eq(other, pre)
    /\ is_zero(self)

\* P - A with A the affine form of P, on a representative with z # 1.
C4_WitnessAffine ==
    /\ op = "sub_affine"
    /\ pre.z \notin {ZERO, ONE}
    /\ eq(pre, from_affine(aff))
    /\ is_zero(self)

(* C5: mixed addition agrees with general addition: self += A equals       *)
(* self += &A' for the lift A' of A (z = 1, or zero for the point at       *)
(* infinity), under projective equality.                                   *)
C5_MixedAgreesWithGeneral ==
    op = "add_affine" => eq(self, add_assign(pre, from_affine(aff)))

\* The generic case on a representative with z other than 1.
C5_Witness ==
    /\ op = "add_affine"
    /\ pre.z \notin {ZERO, ONE}
    /\ ~aff.infinity
    /\ into_affine(pre).x # aff.x
    /\ ~is_zero(self)

\* The equal case and the inverse case.
C5_WitnessEqual ==
    /\ op = "add_affine"
    /\ pre.z \notin {ZERO, ONE}
    /\ eq(pre, from_affine(aff))
    /\ ~is_zero(self)

C5_WitnessInverse ==
    /\ op = "add_affine"
    /\ pre.z \notin {ZERO, ONE}
    /\ pre.y # ZERO
    /\ eq(pre, from_affine(AffineNeg(aff)))
    /\ is_zero(self)

(* C9: the identity short-circuits keep the surviving operand's            *)
(* coordinates memberwise: self += &other with other.z = 0 and self.z # 0  *)
(* leaves self as it was; with self.z = 0 it makes self exactly other;     *)
(* self += A with A at infinity leaves self as it was; with self.z = 0 and *)
(* A = (ax, ay) it makes self exactly (ax, ay, ONE); double_in_place on    *)
(* z = 0 leaves the three coordinates as they were.                        *)
C9_ShortCircuitsKeepCoordinates ==
    /\ (op = "add" /\ other.z = ZERO /\ pre.z # ZERO) => self = pre
    /\ (op = "add" /\ pre.z = ZERO) => self = other
    /\ (op = "add_affine" /\ aff.infinity) => self = pre
    /\ (op = "add_affine" /\ pre.z = ZERO /\ ~aff.infinity) =>
           self = new_unchecked(aff.x, aff.y, ONE)
    /\ (op = "double" /\ pre.z = ZERO) => self = pre

\* A finite affine point added to a z = 0 point other than (ONE, ONE, ZERO).
C9_Witness ==
    /\ op = "add_affine"
    /\ pre.z = ZERO
    /\ pre # zero
    /\ ~aff.infinity
    /\ self.z = ONE

\* A z = 0 operand other than (ONE, ONE, ZERO) added to a finite point.
C9_WitnessRhsZero ==
    /\ op = "add"
    /\ other.z = ZERO
    /\ other # zero
    /\ pre.z \notin {ZERO, ONE}
    /\ self = pre

\* (k^2*x, k^3*y, k*z)
Scaled(g, k) ==
    new_unchecked(mul(square(k), g.x), mul(mul(square(k), k), g.y),
                  mul(k, g.z))

\* The canonical affine coordinates <<x/z^2, y/z^3>> of a triple with z # 0.
Canonical(g) ==
    LET zi == inverse(g.z)
    IN  <<mul(g.x, square(zi)), mul(g.y, mul(square(zi), zi))>>

(* C6: equality is projective equivalence and hashing respects it: for all *)
(* triples, self == other iff both have z = 0 or both have z # 0 and the   *)
(* same canonical affine coordinates; a triple scaled by any nonzero k     *)
(* compares equal to itself; triples that compare equal feed the same      *)
(* affine value to the hasher.                                             *)
C6_EqIsProjectiveEquivalence ==
    /\ op = "eq" =>
           /\ out <=> \/ self.z = ZERO /\ other.z = ZERO
                      \/ /\ self.z # ZERO
                         /\ other.z # ZERO
                         /\ Canonical(self) = Canonical(other)
           /\ (\E k \in Fp \ {ZERO} : other = Scaled(self, k)) => out
    /\ op = "hash" => (eq(self, other) => out.h1 = out.h2)

\* Two different triples with z # 0 that compare equal.
C6_Witness ==
    /\ op = "eq"
    /\ self.z # ZERO
    /\ self.y # ZERO
    /\ self # other
    /\ out = TRUE

\* Two different triples with z # 0 that hash alike.
C6_WitnessHash ==
    /\ op = "hash"
    /\ self.z # ZERO
    /\ self # other
    /\ eq(self, other)
    /\ out.h1 = out.h2

(* C8: new(x, y, z) halts exactly when the affine point (x, y, z) denotes  *)
(* is off the curve or outside the prime-order subgroup; when it returns,  *)
(* the point equals new_unchecked(x, y, z) under projective equality;      *)
(* new_unchecked never fails and stores the coordinates as given.          *)
C8_NewHaltsExactlyOnBadPoints ==
    /\ op = "new" =>
           LET g == [x |-> v[1], y |-> v[2], z |-> v[3]]
               offCurve == g.z # ZERO /\ ~OnCurveJacobian(g)
               bad == offCurve \/ ~RefMul(cv.r, into_affine(g)).infinity
           IN  /\ out.panic <=> bad
               /\ ~out.panic => eq(out.value, new_unchecked(v[1], v[2], v[3]))
    /\ op = "new_unchecked" => out = [x |-> v[1], y |-> v[2], z |-> v[3]]

\* new returns on a representative with z other than 0 and 1.
C8_Witness ==
    /\ op = "new"
    /\ v[3] \notin {ZERO, ONE}
    /\ ~out.panic
    /\ out.value.z = ONE

\* new halts on a point of the curve outside the subgroup, and on a triple
\* off the curve.
C8_WitnessSubgroup ==
    /\ op = "new"
    /\ v[3] # ZERO
    /\ OnCurveJacobian([x |-> v[1], y |-> v[2], z |-> v[3]])
    /\ out.panic

C8_WitnessOffCurve ==
    /\ op = "new"
    /\ v[3] # ZERO
    /\ ~OnCurveJacobian([x |-> v[1], y |-> v[2], z |-> v[3]])
    /\ out.panic

(* C7: normalize_batch is position-wise correct for any mix of identity    *)
(* and non-identity inputs: the output has the length and order of the     *)
(* input; where v[i].z = 0 it holds the affine identity; elsewhere it      *)
(* holds exactly (x_i * z_i^-2, y_i * z_i^-3), the value normalizing v[i]  *)
(* alone gives; and the lift of an affine point normalizes back to it.     *)
C7_NormalizeBatchPositionwise ==
    op = "normalize_batch" =>
        /\ Len(out) = Len(v)
        /\ \A i \in 1..Len(v) :
               IF v[i].z = ZERO
               THEN out[i] = AffineIdentity
               ELSE /\ out[i] = AffineNewUnchecked(Canonical(v[i])[1],
                                                   Canonical(v[i])[2])
                    /\ out[i] = normalize_batch(<<v[i]>>)[1]
        /\ \A A \in AffinePoints : v = <<from_affine(A)>> => out = <<A>>

\* A z = 0 entry before a finite entry with z other than 1.
C7_Witness ==
    /\ op = "normalize_batch"
    /\ Len(v) = 2
    /\ v[1].z = ZERO
    /\ v[2].z \notin {ZERO, ONE}
    /\ out[1] = AffineIdentity
    /\ ~out[2].infinity

\* Two finite entries with different z, neither of them 1.
C7_WitnessTwoFinite ==
    /\ op = "normalize_batch"
    /\ Len(v) = 2
    /\ v[1].z \notin {ZERO, ONE}
    /\ v[2].z \notin {ZERO, ONE}
    /\ v[1].z # v[2].z

\* The empty slice.
C7_WitnessEmpty ==
    /\ op = "normalize_batch"
    /\ v = <<>>
    /\ out = <<>>

\* The triple (ONE, ONE, ZERO), written out.
Canonical0 == [x |-> ONE, y |-> ONE, z |-> ZERO]

\* The right operand of the last addition or subtraction is not the identity.
RhsFinite ==
    \/ op \in {"add", "sub"} /\ other.z # ZERO
    \/ op \in {"add_affine", "sub_affine"} /\ ~aff.infinity

\* M = 3*X^2 + a*Z^4 of the doubling formulae.
DoubleM(g) == add(mul(3 % cv.p, square(g.x)), mul(cv.a, square(square(g.z))))

(* C10 as stated: in every state reachable from identity() and lifts by    *)
(* doubling, negation, mixed and general addition and subtraction, a point *)
(* with z = ZERO is exactly (ONE, ONE, ZERO).                              *)
C10_Original ==
    /\ self.z = ZERO => self = Canonical0
    /\ other.z = ZERO => other = Canonical0

(* C10 as amended: (ONE, ONE, ZERO) is what identity(), the lift of the    *)
(* affine point at infinity and the inverse branch of an addition or       *)
(* subtraction (two operands other than the identity, the left one with    *)
(* y # 0, whose sum is the identity) produce.  Negation and doubling do not *)
(* keep that form: negating a point with z = ZERO negates its y, so        *)
(* -(ONE, ONE, ZERO) is (ONE, -ONE, ZERO), and doubling a point with       *)
(* z # ZERO and y = ZERO gives (M^2, -M^3, ZERO) with M = 3*X^2 + a*Z^4.   *)
(* Every z = ZERO point reached still compares equal to identity().        *)
C10_CanonicalOnlyWhereProduced ==
    /\ op = "init" => C10_Original
    /\ (RhsFinite /\ pre.z # ZERO /\ pre.y # ZERO /\ self.z = ZERO) =>
           self = Canonical0
    /\ (op = "neg" /\ pre.z = ZERO) =>
           self = [x |-> pre.x, y |-> fneg(pre.y), z |-> ZERO]
    /\ (op = "double" /\ pre.z # ZERO /\ pre.y = ZERO) =>
           self = [x |-> square(DoubleM(pre)),
                   y |-> fneg(mul(square(DoubleM(pre)), DoubleM(pre))),
                   z |-> ZERO]
    /\ self.z = ZERO => eq(self, Canonical0)
    /\ other.z = ZERO => eq(other, Canonical0)

\* The inverse branch of a general addition, on representatives with z
\* other than 1, produced (ONE, ONE, ZERO).
C10_Witness ==
    /\ op = "add"
    /\ pre.z \notin {ZERO, ONE}
    /\ pre.y # ZERO
    /\ other.z \notin {ZERO, ONE}
    /\ self = Canonical0

\* Doubling a point of order two left a z = ZERO point other than
\* (ONE, ONE, ZERO).
C10_WitnessDouble ==
    /\ op = "double"
    /\ pre.z # ZERO
    /\ pre.y = ZERO
    /\ self.z = ZERO
    /\ self # Canonical0

\* Negating (ONE, ONE, ZERO).
C10_WitnessNeg ==
    /\ op = "neg"
    /\ pre = Canonical0
    /\ self # Canonical0

\* The affine point the right operand of the last addition denotes; a
\* subtraction adds the negation of its operand.
RhsAdded ==
    IF op = "add" THEN into_affine(other)
    ELSE IF op = "sub" THEN into_affine(neg(other))
    ELSE IF op = "add_affine" THEN aff
    ELSE AffineNeg(aff)

\* A and B are finite points with A = -B.
AreInverses(A, B) ==
    /\ ~A.infinity
    /\ ~B.infinity
    /\ A.x = B.x
    /\ A.y = fneg(B.y)

(* C11: closure on the curve.  In every state reached from identity() and  *)
(* lifts by double_in_place, negation, mixed and general addition and      *)
(* subtraction, every point has z = 0 or satisfies the Jacobian equation   *)
(* Y^2 = X^3 + a*X*Z^4 + b*Z^6; an addition of two points other than the   *)
(* identity gives z = 0 only when the operands are additive inverses, and  *)
(* a doubling of a point other than the identity only when its y = 0.      *)
C11_ClosureOnCurve ==
    /\ self.z # ZERO => OnCurveJacobian(self)
    /\ other.z # ZERO => OnCurveJacobian(other)
    /\ (RhsFinite /\ pre.z # ZERO /\ self.z = ZERO) =>
           AreInverses(into_affine(pre), RhsAdded)
    /\ (op = "double" /\ pre.z # ZERO /\ self.z = ZERO) => pre.y = ZERO

\* A generic general addition of reached representatives with z other than
\* 1 gave a finite point on the curve.
C11_Witness ==
    /\ op = "add"
    /\ pre.z \notin {ZERO, ONE}
    /\ other.z \notin {ZERO, ONE}
    /\ into_affine(pre).x # into_affine(other).x
    /\ self.z \notin {ZERO, ONE}
    /\ OnCurveJacobian(self)

\* A mixed subtraction of a point from itself gave z = 0.
C11_WitnessInverse ==
    /\ op = "sub_affine"
    /\ pre.z \notin {ZERO, ONE}
    /\ pre.y # ZERO
    /\ ~aff.infinity
    /\ self.z = ZERO

\* A doubling in each curve branch gave a finite point with z other than 1.
C11_WitnessDoubleA0 ==
    /\ op = "double"
    /\ cv.a = ZERO
    /\ pre.z \notin {ZERO, ONE}
    /\ self.z \notin {ZERO, ONE}

C11_WitnessDoubleGeneral ==
    /\ op = "double"
    /\ cv.a # ZERO
    /\ pre.z \notin {ZERO, ONE}
    /\ self.z \notin {ZERO, ONE}

====
